---- MODULE Spec2Model ----
(***************************************************************************)
(* Model of motsu's typed image core: the Pixel trait and its four         *)
(* implementations (src/pixel.rs), the PixelConvert matrix, and Image<P>   *)
(* (src/image.rs): new / shrink_data / get_pixel / from_pixels / convert / *)
(* crop; of the codec-side image of src/png.rs; and of the viewer's event  *)
(* loop (src/main.rs).  A Rust panic (index or slice out of range,         *)
(* unimplemented!(), a checked arithmetic overflow) is modelled as a       *)
(* result with ok = FALSE.  Indices are 0-based as in the source; the      *)
(* element at Rust index i is data[i + 1].                                 *)
(*                                                                         *)
(* image  : the image buffer the caller holds                              *)
(* last   : the latest call or event, its arguments and what it returned   *)
(* viewer : the locals of main_loop while the viewer runs                  *)
(***************************************************************************)
EXTENDS Integers, Sequences, FiniteSets, TLC

VARIABLES image, last, viewer

vars == <<image, last, viewer>>

(***************************************************************************)
(* Bounds of the model.                                                    *)
(***************************************************************************)
MaxDim == 2

MaxCrop == 2

MaxSupplied == 3

(***************************************************************************)
(* Generic helpers.                                                        *)
(***************************************************************************)
Min(a, b) == IF a <= b THEN a ELSE b

Max(a, b) == IF a >= b THEN a ELSE b

SeqsUpTo(S, n) == UNION {[1..k -> S] : k \in 0..n}

\* Rust slice vec[a..b]: 0-based, half-open.  Defined when a <= b <= len.
SliceOk(vec, a, b) == a <= b /\ b <= Len(vec)

Slice(vec, a, b) == SubSeq(vec, a + 1, b)

\* Rust index vec[i]: panics unless i < len.
IndexOk(vec, i) == i < Len(vec)

Index(vec, i) == vec[i + 1]

(***************************************************************************)
(* pixel.rs: the four pixel formats.                                       *)
(***************************************************************************)
Formats == {"Gray", "GrayA", "RGB", "RGBA"}

NUM_CHANNELS(P) ==
    CASE P = "Gray" -> 1
      [] P = "RGB" -> 3
      [] P = "RGBA" -> 4
      [] P = "GrayA" -> 2

into_vec(P, px) ==
    CASE P = "Gray" -> <<px.gray>>
      [] P = "RGB" -> <<px.red, px.green, px.blue>>
      [] P = "RGBA" -> <<px.red, px.green, px.blue, px.alpha>>
      [] P = "GrayA" -> <<px.gray, px.alpha>>

\* The offsets from_slice reads, relative to idx, in field order.
from_slice_offsets(P) ==
    CASE P = "Gray" -> <<0>>
      [] P = "RGB" -> <<0, 1, 2>>
      [] P = "RGBA" -> <<0, 1, 2, 3>>
      [] P = "GrayA" -> <<0, 2>>

\* from_slice returns normally iff every index it reads is in range.
from_slice_ok(P, vec, idx) ==
    \A k \in 1..Len(from_slice_offsets(P)) :
        IndexOk(vec, idx + from_slice_offsets(P)[k])

from_slice(P, vec, idx) ==
    CASE P = "Gray" -> [gray |-> Index(vec, idx)]
      [] P = "RGB" ->
           [red |-> Index(vec, idx), green |-> Index(vec, idx + 1),
            blue |-> Index(vec, idx + 2)]
      [] P = "RGBA" ->
           [red |-> Index(vec, idx), green |-> Index(vec, idx + 1),
            blue |-> Index(vec, idx + 2), alpha |-> Index(vec, idx + 3)]
      [] P = "GrayA" ->
           [gray |-> Index(vec, idx), alpha |-> Index(vec, idx + 2)]

(***************************************************************************)
(* f32 arithmetic on non-negative values, as rgb_to_gray uses it.  A value *)
(* is m * 2^e with 2^23 <= m < 2^24 (24-bit significand), or zero (m = 0). *)
(* Every operation rounds to nearest, ties to even (IEEE 754 binary32).    *)
(***************************************************************************)
F32Zero == [m |-> 0, e |-> 0]

\* A significand that rounding carried up to 2^24 is renormalised.
F32Norm(m, e) == IF m = 16777216 THEN [m |-> 8388608, e |-> e + 1] ELSE [m |-> m, e |-> e]

\* q + rem / 2^k rounded to an integer, ties to even (k >= 0, 0 <= rem < 2^k).
RoundHalfEven(q, rem, k) ==
    IF k = 0 THEN q
    ELSE IF rem > 2 ^ (k - 1) \/ (rem = 2 ^ (k - 1) /\ q % 2 = 1) THEN q + 1 ELSE q

\* The f32 literals of rgb_to_gray: 0.3, 0.59 and 0.11 rounded to binary32.
F32_0_3 == [m |-> 10066330, e |-> -25]

F32_0_59 == [m |-> 9898557, e |-> -24]

F32_0_11 == [m |-> 14763950, e |-> -27]

\* c * (v as f32) for a u8 v: the exact product c.m * v (up to 32 bits, held
\* as hi * 4096 + lo) rounded to 24 bits.
F32MulU8(c, v) ==
    IF v = 0 THEN F32Zero
    ELSE LET hi == (c.m \div 4096) * v + (((c.m % 4096) * v) \div 4096)
             lo == ((c.m % 4096) * v) % 4096
             k == CHOOSE j \in 0..8 :
                      /\ hi < 2 ^ (12 + j)
                      /\ (j > 0 => hi >= 2 ^ (11 + j))
             q == hi * 2 ^ (12 - k) + (lo \div 2 ^ k)
         IN  F32Norm(RoundHalfEven(q, lo % 2 ^ k, k), c.e + k)

F32Add(a, b) ==
    IF a.m = 0 THEN b
    ELSE IF b.m = 0 THEN a
    ELSE LET big == IF a.e >= b.e THEN a ELSE b
             small == IF a.e >= b.e THEN b ELSE a
             d == big.e - small.e
         IN  IF d >= 25 THEN big
             ELSE LET q == small.m \div 2 ^ d
                      rem == small.m % 2 ^ d
                      s == big.m + q
                  IN  IF s < 16777216
                      THEN F32Norm(RoundHalfEven(s, rem, d), big.e)
                      ELSE F32Norm(RoundHalfEven(s \div 2, (s % 2) * 2 ^ d + rem, d + 1),
                                   big.e + 1)

\* `x as u8`: the fraction is discarded and the value saturates at 255.
F32AsU8(x) ==
    IF x.m = 0 THEN 0
    ELSE IF x.e >= 0 THEN 255
    ELSE IF 0 - x.e >= 24 THEN 0
    ELSE Min(255, x.m \div 2 ^ (0 - x.e))

rgb_to_gray(r, g, b) ==
    F32AsU8(F32Add(F32Add(F32MulU8(F32_0_3, r), F32MulU8(F32_0_59, g)),
                   F32MulU8(F32_0_11, b)))

\* PixelConvert<Q> for P: the sixteen convert implementations, one
\* operator per source format.
convert_RGB(Q, px) ==
    CASE Q = "RGB" -> px
      [] Q = "Gray" -> [gray |-> rgb_to_gray(px.red, px.green, px.blue)]
      [] Q = "RGBA" ->
           [red |-> px.red, green |-> px.green, blue |-> px.blue, alpha |-> 255]
      [] Q = "GrayA" ->
           [gray |-> rgb_to_gray(px.red, px.green, px.blue), alpha |-> 255]

\* convert_Gray with the alpha of Gray -> GrayA taken from the gray channel.
convert_Gray_alpha_from_gray(Q, px) ==
    CASE Q = "RGB" -> [red |-> px.gray, green |-> px.gray, blue |-> px.gray]
      [] Q = "Gray" -> px
      [] Q = "RGBA" ->
           [red |-> px.gray, green |-> px.gray, blue |-> px.gray, alpha |-> 255]
      [] Q = "GrayA" -> [gray |-> px.gray, alpha |-> px.gray]

convert_Gray(Q, px) ==
    CASE Q = "RGB" -> [red |-> px.gray, green |-> px.gray, blue |-> px.gray]
      [] Q = "Gray" -> px
      [] Q = "RGBA" ->
           [red |-> px.gray, green |-> px.gray, blue |-> px.gray, alpha |-> 255]
      [] Q = "GrayA" -> [gray |-> px.gray, alpha |-> 255]

convert_RGBA(Q, px) ==
    CASE Q = "RGB" -> [red |-> px.red, green |-> px.green, blue |-> px.blue]
      [] Q = "Gray" -> [gray |-> rgb_to_gray(px.red, px.green, px.blue)]
      [] Q = "RGBA" -> px
      [] Q = "GrayA" ->
           [gray |-> rgb_to_gray(px.red, px.green, px.blue), alpha |-> px.alpha]

convert_GrayA(Q, px) ==
    CASE Q = "RGB" -> [red |-> px.gray, green |-> px.gray, blue |-> px.gray]
      [] Q = "Gray" -> [gray |-> px.gray]
      [] Q = "RGBA" ->
           [red |-> px.gray, green |-> px.gray, blue |-> px.gray, alpha |-> px.alpha]
      [] Q = "GrayA" -> px

\* Trait dispatch on the source type P.
convert_pixel(P, Q, px) ==
    CASE P = "RGB" -> convert_RGB(Q, px)
      [] P = "Gray" -> convert_Gray(Q, px)
      [] P = "RGBA" -> convert_RGBA(Q, px)
      [] P = "GrayA" -> convert_GrayA(Q, px)

(***************************************************************************)
(* image.rs: Image<P>.                                                     *)
(***************************************************************************)
make_image(P, height, width, data) ==
    [fmt |-> P, height |-> height, width |-> width, data |-> data]

\* Vec::resize_with(size, || 0): truncate, or extend with zero bytes.
resize_with(data, size) ==
    [i \in 1..size |-> IF i <= Len(data) THEN data[i] ELSE 0]

\* shrink_data that truncates a long vector but does not pad a short one.
shrink_data_no_pad(self) ==
    LET size == self.height * self.width * NUM_CHANNELS(self.fmt)
    IN  IF Len(self.data) > size
        THEN [self EXCEPT !.data = resize_with(self.data, size)]
        ELSE self

shrink_data(self) ==
    LET size == self.height * self.width * NUM_CHANNELS(self.fmt)
    IN  IF Len(self.data) # size
        THEN [self EXCEPT !.data = resize_with(self.data, size)]
        ELSE self

new(P, height, width, data) == shrink_data(make_image(P, height, width, data))

row_size(self) == self.width * NUM_CHANNELS(self.fmt)

get_pixel_idx(self, x, y) == y * row_size(self) + x * NUM_CHANNELS(self.fmt)

get_pixel_ok(self, x, y) ==
    from_slice_ok(self.fmt, self.data, get_pixel_idx(self, x, y))

get_pixel(self, x, y) ==
    from_slice(self.fmt, self.data, get_pixel_idx(self, x, y))

\* A returned value, or a panic.
Ok(img) == [ok |-> TRUE, img |-> img]

Panic(img) == [ok |-> FALSE, img |-> img]

RECURSIVE crop_rows(_, _, _, _)
\* The row loop of crop_left / crop_right: rows i..height-1, each sliced
\* from start + lo to end - hi.
crop_rows(self, i, lo, hi) ==
    IF i >= self.height THEN Ok(<<>>)
    ELSE LET start == i * row_size(self)
             end == start + row_size(self)
         IN  IF ~SliceOk(self.data, start + lo, end - hi) THEN Panic(<<>>)
             ELSE LET rest == crop_rows(self, i + 1, lo, hi)
                  IN  IF ~rest.ok THEN rest
                      ELSE Ok(Slice(self.data, start + lo, end - hi) \o rest.img)

\* crop_left that skips amt bytes, not amt pixels, at the start of each row.
crop_left_bytes(self, amt) ==
    IF self.width <= amt THEN Ok(self)
    ELSE LET rows == crop_rows(self, 0, amt, 0)
         IN  IF ~rows.ok THEN Panic(self)
             ELSE Ok(make_image(self.fmt, self.height, self.width - amt, rows.img))

crop_left(self, amt) ==
    IF self.width <= amt THEN Ok(self)
    ELSE LET rows == crop_rows(self, 0, NUM_CHANNELS(self.fmt) * amt, 0)
         IN  IF ~rows.ok THEN Panic(self)
             ELSE Ok(make_image(self.fmt, self.height, self.width - amt, rows.img))

\* crop_right whose guard lets amt = width through.
crop_right_strict(self, amt) ==
    IF self.width < amt THEN Ok(self)
    ELSE LET rows == crop_rows(self, 0, 0, NUM_CHANNELS(self.fmt) * amt)
         IN  IF ~rows.ok THEN Panic(self)
             ELSE Ok(make_image(self.fmt, self.height, self.width - amt, rows.img))

crop_right(self, amt) ==
    IF self.width <= amt THEN Ok(self)
    ELSE LET rows == crop_rows(self, 0, 0, NUM_CHANNELS(self.fmt) * amt)
         IN  IF ~rows.ok THEN Panic(self)
             ELSE Ok(make_image(self.fmt, self.height, self.width - amt, rows.img))

\* crop_top whose guard lets amt = height through.
crop_top_strict(self, amt) ==
    IF self.height < amt THEN Ok(self)
    ELSE IF ~SliceOk(self.data, amt * row_size(self), Len(self.data))
         THEN Panic(self)
         ELSE Ok(make_image(self.fmt, self.height - amt, self.width,
                            Slice(self.data, amt * row_size(self), Len(self.data))))

crop_top(self, amt) ==
    IF self.height <= amt THEN Ok(self)
    ELSE IF ~SliceOk(self.data, amt * row_size(self), Len(self.data))
         THEN Panic(self)
         ELSE Ok(make_image(self.fmt, self.height - amt, self.width,
                            Slice(self.data, amt * row_size(self), Len(self.data))))

crop_bottom(self, amt) ==
    IF self.height <= amt THEN Ok(self)
    ELSE IF ~SliceOk(self.data, 0, (self.height - amt) * row_size(self))
         THEN Panic(self)
         ELSE Ok(make_image(self.fmt, self.height - amt, self.width,
                            Slice(self.data, 0, (self.height - amt) * row_size(self))))

RECURSIVE from_pixels_row(_, _, _)
\* The inner loop of from_pixels: the bytes of row[x..].
from_pixels_row(P, row, x) ==
    IF x > Len(row) THEN <<>>
    ELSE into_vec(P, row[x]) \o from_pixels_row(P, row, x + 1)

RECURSIVE from_pixels_rows(_, _, _)
from_pixels_rows(P, pixels, y) ==
    IF y > Len(pixels) THEN <<>>
    ELSE from_pixels_row(P, pixels[y], 1) \o from_pixels_rows(P, pixels, y + 1)

from_pixels(P, pixels) ==
    IF Len(pixels) = 0 \/ Len(pixels[1]) = 0
    THEN make_image(P, 0, 0, <<>>)
    ELSE make_image(P, Len(pixels), Len(pixels[1]), from_pixels_rows(P, pixels, 1))

RECURSIVE convert_from(_, _, _)
\* The loops of convert from pixel number k (y = k div width, x = k mod
\* width) on: the bytes appended, or a panic of get_pixel.
convert_from(self, Q, k) ==
    IF k >= self.height * self.width THEN Ok(<<>>)
    ELSE LET x == k % self.width
             y == k \div self.width
         IN  IF ~get_pixel_ok(self, x, y) THEN Panic(<<>>)
             ELSE LET rest == convert_from(self, Q, k + 1)
                  IN  IF ~rest.ok THEN rest
                      ELSE Ok(into_vec(Q, convert_pixel(self.fmt, Q, get_pixel(self, x, y)))
                              \o rest.img)

convert(self, Q) ==
    LET data == convert_from(self, Q, 0)
    IN  IF ~data.ok THEN Panic(self)
        ELSE Ok(new(Q, self.height, self.width, data.img))

\* mutant of crop: the right side is not cropped
crop_skips_right(self, left, right, top, bottom) ==
    LET a == crop_top(self, top)
        b == IF a.ok THEN crop_bottom(a.img, bottom) ELSE a
        c == IF b.ok THEN crop_left(b.img, left) ELSE b
    IN  IF c.ok THEN Ok(shrink_data(c.img)) ELSE Panic(self)

\* self.crop_top(top).crop_bottom(bottom).crop_left(left).crop_right(right),
\* then shrink_data; a panic in any link ends the call.
crop(self, left, right, top, bottom) ==
    LET a == crop_top(self, top)
        b == IF a.ok THEN crop_bottom(a.img, bottom) ELSE a
        c == IF b.ok THEN crop_left(b.img, left) ELSE b
        d == IF c.ok THEN crop_right(c.img, right) ELSE c
    IN  IF d.ok THEN Ok(shrink_data(d.img)) ELSE Panic(self)

(***************************************************************************)
(* Inputs.                                                                 *)
(***************************************************************************)
Dims == 0..MaxDim

CropAmounts == 0..MaxCrop

SuppliedByte == {7, 255}

\* Scenario D of the specification: 4 bytes for a 1 x 2 RGB buffer.
ScenarioD == <<7, 255, 7, 255>>

\* Scenario A: the 2 x 2 RGBA buffer red, green, blue, white.
ScenarioA ==
    <<255, 0, 0, 255, 0, 255, 0, 255, 0, 0, 255, 255, 255, 255, 255, 255>>

SuppliedData == SeqsUpTo(SuppliedByte, MaxSupplied) \cup {ScenarioA, ScenarioD}

\* Pixel grids for from_pixels: every shape of up to MaxDim rows of up to
\* MaxDim pixels each (ragged shapes included), filled with pixels that differ
\* from their neighbours: pixel (x, y) is GridPixel(P, x + 3y).
GridByte == <<7, 255, 0, 10, 128>>

GridChannel(n, c) == GridByte[((n + c) % 5) + 1]

GridPixel(P, n) ==
    CASE P = "Gray" -> [gray |-> GridChannel(n, 0)]
      [] P = "RGB" ->
           [red |-> GridChannel(n, 0), green |-> GridChannel(n, 1),
            blue |-> GridChannel(n, 2)]
      [] P = "RGBA" ->
           [red |-> GridChannel(n, 0), green |-> GridChannel(n, 1),
            blue |-> GridChannel(n, 2), alpha |-> GridChannel(n, 3)]
      [] P = "GrayA" -> [gray |-> GridChannel(n, 0), alpha |-> GridChannel(n, 1)]

GridShapes == SeqsUpTo(Dims, MaxDim)

Grid(P, shape) ==
    [y \in 1..Len(shape) |->
        [x \in 1..shape[y] |-> GridPixel(P, (x - 1) + 3 * (y - 1))]]

\* Pixel values for the pixel-level operations.
PixelByte == {0, 1, 7, 128, 255}

Pixels(P) ==
    CASE P = "Gray" -> [gray : PixelByte]
      [] P = "RGB" -> [red : PixelByte, green : PixelByte, blue : PixelByte]
      [] P = "RGBA" ->
           [red : PixelByte, green : PixelByte, blue : PixelByte, alpha : PixelByte]
      [] P = "GrayA" -> [gray : PixelByte, alpha : PixelByte]

(***************************************************************************)
(* The state machine.  `image` is the buffer the caller holds; `last` is   *)
(* the call in progress with its arguments and what it returned (`out`),   *)
(* or op = "none" between calls.  Every operation takes &self and returns  *)
(* a new buffer, so a call leaves `image` alone; Keep is the caller going  *)
(* on with the returned buffer.  A call that panicked returns nothing and  *)
(* the chain ends there.  The constructors read no buffer, so a chain      *)
(* starts with one of them; calling them again later would reach only      *)
(* states that are reachable already.                                      *)
(***************************************************************************)
EmptyImage == make_image("Gray", 0, 0, <<>>)

\* main_loop has not been entered.
NoViewer == [status |-> "off"]

\* No call is in progress.
Idle == last.op = "none"

\* No buffer has been constructed yet.
Fresh == Idle /\ image = EmptyImage

Init ==
    /\ image = EmptyImage
    /\ last = [op |-> "none"]
    /\ viewer = NoViewer

New(P, height, width, data) ==
    /\ last' = [op |-> "new", fmt |-> P, height |-> height, width |-> width,
                supplied |-> data, ok |-> TRUE,
                out |-> new(P, height, width, data)]
    /\ UNCHANGED <<image, viewer>>

FromPixels(P, pixels) ==
    /\ last' = [op |-> "from_pixels", fmt |-> P, pixels |-> pixels, ok |-> TRUE,
                out |-> from_pixels(P, pixels)]
    /\ UNCHANGED <<image, viewer>>

Convert(Q) ==
    LET r == convert(image, Q)
    IN  /\ last' = [op |-> "convert", src |-> image, to |-> Q, ok |-> r.ok,
                    out |-> r.img]
        /\ UNCHANGED <<image, viewer>>

Crop(left, right, top, bottom) ==
    LET r == crop(image, left, right, top, bottom)
    IN  /\ last' = [op |-> "crop", src |-> image, left |-> left, right |-> right,
                    top |-> top, bottom |-> bottom, ok |-> r.ok, out |-> r.img]
        /\ UNCHANGED <<image, viewer>>

Keep ==
    /\ last.op \in {"new", "from_pixels", "convert", "crop"}
    /\ last.ok
    /\ image' = last.out
    /\ last' = [op |-> "none"]
    /\ UNCHANGED viewer

CallNew ==
    /\ Fresh
    /\ \E P \in Formats, h \in Dims, w \in Dims, data \in SuppliedData :
          New(P, h, w, data)

CallFromPixels ==
    /\ Fresh
    /\ \E P \in Formats, shape \in GridShapes : FromPixels(P, Grid(P, shape))

CallConvert ==
    /\ Idle
    /\ \E Q \in Formats : Convert(Q)

CallCrop ==
    /\ Idle
    /\ \E l \in CropAmounts, r \in CropAmounts, t \in CropAmounts, b \in CropAmounts :
          Crop(l, r, t, b)

Next == CallNew \/ CallFromPixels \/ CallConvert \/ CallCrop \/ Keep

Spec == Init /\ [][Next]_vars

\* The constructors and crop only.
NextCrop == CallNew \/ CallFromPixels \/ CallCrop \/ Keep

SpecCrop == Init /\ [][NextCrop]_vars

\* The constructors and convert only.
NextConvert == CallNew \/ CallFromPixels \/ CallConvert \/ Keep

SpecConvert == Init /\ [][NextConvert]_vars

(***************************************************************************)
(* The pixel-level operations on their own: a pixel value is encoded and   *)
(* decoded again, or converted to another format.                          *)
(***************************************************************************)
RoundTrip(P, px) ==
    LET vec == into_vec(P, px)
        ok == from_slice_ok(P, vec, 0)
    IN  /\ last' = [op |-> "round_trip", fmt |-> P, px |-> px, vec |-> vec,
                    ok |-> ok, out |-> IF ok THEN from_slice(P, vec, 0) ELSE px]
        /\ UNCHANGED <<image, viewer>>

ConvertPixel(P, Q, px) ==
    /\ last' = [op |-> "convert_pixel", fmt |-> P, to |-> Q, px |-> px,
                ok |-> TRUE, out |-> convert_pixel(P, Q, px)]
    /\ UNCHANGED <<image, viewer>>

CallRoundTrip ==
    /\ Idle
    /\ \E P \in Formats : \E px \in Pixels(P) : RoundTrip(P, px)

CallConvertPixel ==
    /\ Idle
    /\ \E P \in Formats, Q \in Formats : \E px \in Pixels(P) : ConvertPixel(P, Q, px)

NextPixel == CallRoundTrip \/ CallConvertPixel

SpecPixel == Init /\ [][NextPixel]_vars

(***************************************************************************)
(* Pixel access: get_pixel at a position, and the buffer taken to a grid   *)
(* of pixel values and back.                                               *)
(***************************************************************************)
\* to_pixels reads every position with get_pixel, rows from the top.
to_pixels(self) ==
    IF \A y \in 0..(self.height - 1), x \in 0..(self.width - 1) :
          get_pixel_ok(self, x, y)
    THEN Ok([y \in 1..self.height |->
                [x \in 1..self.width |-> get_pixel(self, x - 1, y - 1)]])
    ELSE Panic(<<>>)

\* The offsets of the buffer that get_pixel(x, y) indexes.
get_pixel_reads(self, x, y) ==
    {get_pixel_idx(self, x, y) + from_slice_offsets(self.fmt)[i] :
        i \in 1..Len(from_slice_offsets(self.fmt))}

GetPixel(x, y) ==
    LET ok == get_pixel_ok(image, x, y)
    IN  /\ last' = [op |-> "get_pixel", src |-> image, x |-> x, y |-> y,
                    reads |-> get_pixel_reads(image, x, y), ok |-> ok,
                    out |-> IF ok THEN get_pixel(image, x, y) ELSE <<>>]
        /\ UNCHANGED <<image, viewer>>

\* from_pixels(b.to_pixels()) for the buffer b held.
ToPixelsRoundTrip ==
    LET g == to_pixels(image)
    IN  /\ last' = [op |-> "to_pixels_round_trip", src |-> image, ok |-> g.ok,
                    grid |-> g.img,
                    out |-> IF g.ok THEN from_pixels(image.fmt, g.img) ELSE image]
        /\ UNCHANGED <<image, viewer>>

\* from_pixels(g).to_pixels() for a grid g.
FromPixelsRoundTrip(P, pixels) ==
    LET b == from_pixels(P, pixels)
        g == to_pixels(b)
    IN  /\ last' = [op |-> "from_pixels_round_trip", fmt |-> P,
                    pixels |-> pixels, buffer |-> b, ok |-> g.ok, out |-> g.img]
        /\ UNCHANGED <<image, viewer>>

CallGetPixel ==
    /\ Idle
    /\ \E x \in Dims, y \in Dims : GetPixel(x, y)

CallToPixelsRoundTrip ==
    /\ Idle
    /\ ToPixelsRoundTrip

CallFromPixelsRoundTrip ==
    /\ Fresh
    /\ \E P \in Formats, shape \in GridShapes : FromPixelsRoundTrip(P, Grid(P, shape))

NextAccess ==
    \/ CallNew \/ CallFromPixels \/ Keep
    \/ CallGetPixel \/ CallToPixelsRoundTrip \/ CallFromPixelsRoundTrip

SpecAccess == Init /\ [][NextAccess]_vars

(***************************************************************************)
(* png.rs: the codec side.  A decoded file is what libpng holds after      *)
(* png_read_png: the colour type, the dimensions and one byte run per      *)
(* scanline.                                                               *)
(***************************************************************************)
ColorTypes == {"Gray", "Palette", "RGB", "RGBAlpha", "GrayAlpha"}

PNG_COLOR_MASK_PALETTE == 1
PNG_COLOR_MASK_COLOR == 2
PNG_COLOR_MASK_ALPHA == 4

\* The masks are distinct bits, so | is +.
as_c_int(color_type) ==
    CASE color_type = "Gray" -> 0
      [] color_type = "Palette" -> PNG_COLOR_MASK_COLOR + PNG_COLOR_MASK_PALETTE
      [] color_type = "RGB" -> PNG_COLOR_MASK_COLOR
      [] color_type = "RGBAlpha" -> PNG_COLOR_MASK_COLOR + PNG_COLOR_MASK_ALPHA
      [] color_type = "GrayAlpha" -> PNG_COLOR_MASK_ALPHA

\* Bytes per pixel of a scanline of 8-bit samples, from the bits of the
\* colour type: one index for a palette, else one or three colour samples
\* and one more for alpha.
scanline_channels(color_type) ==
    LET c == as_c_int(color_type)
        palette == (c \div PNG_COLOR_MASK_PALETTE) % 2 = 1
        color == (c \div PNG_COLOR_MASK_COLOR) % 2 = 1
        alpha == (c \div PNG_COLOR_MASK_ALPHA) % 2 = 1
    IN  IF palette THEN 1
        ELSE (IF color THEN 3 ELSE 1) + (IF alpha THEN 1 ELSE 0)

\* ColorType::num_channels; Palette is unimplemented!(), a panic.
num_channels(color_type) ==
    CASE color_type = "Gray" -> [ok |-> TRUE, val |-> 1]
      [] color_type = "Palette" -> [ok |-> FALSE, val |-> 0]
      [] color_type = "RGB" -> [ok |-> TRUE, val |-> 3]
      [] color_type = "RGBAlpha" -> [ok |-> TRUE, val |-> 4]
      [] color_type = "GrayAlpha" -> [ok |-> TRUE, val |-> 1]

png_image(height, width, color_type, data) ==
    [height |-> height, width |-> width, color_type |-> color_type, data |-> data]

RECURSIVE get_image_rows(_, _, _)
\* The row loop of get_image: the first row_size bytes of each scanline.
get_image_rows(rows, rsize, y) ==
    IF y > Len(rows) THEN <<>>
    ELSE SubSeq(rows[y], 1, rsize) \o get_image_rows(rows, rsize, y + 1)

\* PNG::get_image.  num_channels is called before anything is built.
get_image(file) ==
    LET n == num_channels(file.color_type)
        rsize == file.width * n.val
    IN  IF ~n.ok THEN Panic(png_image(0, 0, file.color_type, <<>>))
        ELSE Ok(png_image(file.height, file.width, file.color_type,
                          get_image_rows(file.rows, rsize, 1)))

\* The codec-side Image::row_size.
png_row_size(self) ==
    LET n == num_channels(self.color_type)
    IN  [ok |-> n.ok, val |-> self.width * n.val]

\* The offsets of data the codec-side get_pixel(x, y) indexes.
png_get_pixel_offsets(self, x, y) ==
    LET rsize == png_row_size(self).val
    IN  CASE self.color_type = "Gray" -> <<y * rsize + x>>
          [] self.color_type = "RGB" ->
               <<y * rsize + x * 3, y * rsize + x * 3 + 1,
                 y * rsize + x * 3 + 2>>
          [] self.color_type = "RGBAlpha" ->
               <<y * rsize + x * 4, y * rsize + x * 4 + 1,
                 y * rsize + x * 4 + 2, y * rsize + x * 4 + 3>>
          [] self.color_type = "GrayAlpha" ->
               <<y * rsize + x * 2, y * rsize + x * 2 + 1>>
          [] self.color_type = "Palette" -> <<>>

\* The codec-side Image::get_pixel: the bytes read, or a panic.
png_get_pixel(self, x, y) ==
    LET offs == png_get_pixel_offsets(self, x, y)
    IN  IF /\ png_row_size(self).ok
           /\ self.color_type # "Palette"
           /\ \A i \in 1..Len(offs) : IndexOk(self.data, offs[i])
        THEN Ok([i \in 1..Len(offs) |-> Index(self.data, offs[i])])
        ELSE Panic(<<>>)

\* Decoded files: every colour type and shape, scanlines of
\* width * scanline_channels bytes, two byte patterns.
DecodedRow(color_type, width, y, seed) ==
    [i \in 1..(width * scanline_channels(color_type)) |->
        GridByte[((i + 3 * y + seed) % 5) + 1]]

DecodedFiles ==
    {[color_type |-> ct, height |-> h, width |-> w,
      rows |-> [y \in 1..h |-> DecodedRow(ct, w, y, seed)]] :
        ct \in ColorTypes, h \in Dims, w \in Dims, seed \in {0, 1}}

GetImage(file) ==
    LET r == get_image(file)
    IN  /\ last' = [op |-> "get_image", file |-> file,
                    outcome |-> IF r.ok THEN "image" ELSE "panic",
                    ok |-> r.ok, out |-> r.img]
        /\ UNCHANGED <<image, viewer>>

\* The caller keeps the codec-side image get_image returned.
KeepImage ==
    /\ last.op = "get_image"
    /\ last.ok
    /\ image' = last.out
    /\ last' = [op |-> "none"]
    /\ UNCHANGED viewer

PngGetPixel(x, y) ==
    LET r == png_get_pixel(image, x, y)
    IN  /\ last' = [op |-> "png_get_pixel", src |-> image, x |-> x, y |-> y,
                    row_size |-> png_row_size(image).val,
                    reads |-> png_get_pixel_offsets(image, x, y),
                    ok |-> r.ok, out |-> r.img]
        /\ UNCHANGED <<image, viewer>>

CallGetImage ==
    /\ Fresh
    /\ \E file \in DecodedFiles : GetImage(file)

CallPngGetPixel ==
    /\ Idle
    /\ image # EmptyImage
    /\ \E x \in Dims, y \in Dims : PngGetPixel(x, y)

NextPng == CallGetImage \/ KeepImage \/ CallPngGetPixel

SpecPng == Init /\ [][NextPng]_vars

(***************************************************************************)
(* main.rs: the viewer.  image is the RgbaImage handed to main_loop (only  *)
(* its dimensions matter here); viewer holds the locals of main_loop.  A   *)
(* u32 is modelled by the integer of its two's-complement reading, so a   *)
(* subtraction that wrapped is a negative number here, larger than every   *)
(* non-negative one as a u32, and `as i32` leaves it as it is.  A debug    *)
(* build checks u32 arithmetic and panics on underflow, a release build    *)
(* wraps: overflow_checks is chosen when the viewer starts.                *)
(***************************************************************************)
MaxImage == 2

MaxMouse == 1

MaxWindow == 2

MaxAmount == 3

DefaultCrop == [left |-> 0, right |-> 0, top |-> 0, bottom |-> 0]

\* a - b - c (- 1) in u32 for non-negative a, b, c: underflows iff the
\* result is negative.
sub_u32(d, overflow_checks) ==
    IF d < 0 /\ overflow_checks THEN [ok |-> FALSE, val |-> 0]
    ELSE [ok |-> TRUE, val |-> d]

\* min of two u32, the first a small non-negative number.
min_u32(a, b) == IF b < 0 THEN a ELSE Min(a, b)

\* i32 division, which truncates towards zero; b > 0.
div_i32(a, b) == IF a >= 0 THEN a \div b ELSE -((-a) \div b)

calculate_delta(control) == IF control THEN 10 ELSE 1

\* image::imageops::crop clamps the rectangle to the image.
crop_image(img, amounts, overflow_checks) ==
    LET width == sub_u32(img.width - amounts.left - amounts.right, overflow_checks)
        height == sub_u32(img.height - amounts.top - amounts.bottom, overflow_checks)
        x == Min(amounts.left, img.width)
        y == Min(amounts.top, img.height)
    IN  IF ~width.ok \/ ~height.ok THEN Panic(<<>>)
        ELSE Ok([x |-> x, y |-> y,
                 width |-> min_u32(img.width - x, width.val),
                 height |-> min_u32(img.height - y, height.val)])

Running == viewer.status = "running"

Panicked == [viewer EXCEPT !.status = "panicked"]

\* min(delta, dimension - near - far - 1), or the panic of the subtraction.
crop_step(dimension, near, far, delta) ==
    LET room == sub_u32(dimension - near - far - 1, viewer.overflow_checks)
    IN  [ok |-> room.ok, val |-> min_u32(delta, room.val)]

\* if let WindowEvent::Key(_, _, Action::Release, _) = event { continue; }
KeyRelease(key, action, shift, control) ==
    /\ action = "Release"
    /\ UNCHANGED <<image, last, viewer>>

\* WindowEvent::Close | WindowEvent::Key(Key::Escape | Key::Q, _, _, _):
\* break 'app, then crop_image(&mut image, crop).
Quit(event, key, action) ==
    /\ \/ event = "Close"
       \/ event = "Key" /\ action # "Release" /\ key \in {"Escape", "Q"}
    /\ LET r == crop_image(image, viewer.crop, viewer.overflow_checks)
       IN  viewer' = IF r.ok
                     THEN [viewer EXCEPT !.status = "returned", !.returned = <<r.img>>]
                     ELSE Panicked
    /\ UNCHANGED <<image, last>>

\* WindowEvent::Pos | WindowEvent::Size | WindowEvent::Focus
WindowChanged(event) ==
    /\ event \in {"Pos", "Size", "Focus"}
    /\ viewer' = [viewer EXCEPT !.redraw = TRUE]
    /\ UNCHANGED <<image, last>>

\* WindowEvent::Key(Key::K | Key::Up, _, _, modifiers)
KeyUp(key, action, shift, control) ==
    /\ action # "Release" /\ key \in {"K", "Up"}
    /\ LET delta == calculate_delta(control)
           c == viewer.crop
           step == crop_step(image.height, c.top, c.bottom, delta)
       IN  viewer' =
             IF shift
             THEN [viewer EXCEPT !.crop.top = c.top - Min(delta, c.top),
                                 !.redraw = TRUE]
             ELSE IF step.ok
                  THEN [viewer EXCEPT !.crop.bottom = c.bottom + step.val,
                                      !.redraw = TRUE]
                  ELSE Panicked
    /\ UNCHANGED <<image, last>>

\* WindowEvent::Key(Key::J | Key::Down, _, _, modifiers)
KeyDown(key, action, shift, control) ==
    /\ action # "Release" /\ key \in {"J", "Down"}
    /\ LET delta == calculate_delta(control)
           c == viewer.crop
           step == crop_step(image.height, c.top, c.bottom, delta)
       IN  viewer' =
             IF shift
             THEN [viewer EXCEPT !.crop.bottom = c.bottom - Min(delta, c.bottom),
                                 !.redraw = TRUE]
             ELSE IF step.ok
                  THEN [viewer EXCEPT !.crop.top = c.top + step.val,
                                      !.redraw = TRUE]
                  ELSE Panicked
    /\ UNCHANGED <<image, last>>

\* WindowEvent::Key(Key::H | Key::Left, _, _, modifiers)
KeyLeft(key, action, shift, control) ==
    /\ action # "Release" /\ key \in {"H", "Left"}
    /\ LET delta == calculate_delta(control)
           c == viewer.crop
           step == crop_step(image.width, c.left, c.right, delta)
       IN  viewer' =
             IF shift
             THEN [viewer EXCEPT !.crop.left = c.left - Min(delta, c.left),
                                 !.redraw = TRUE]
             ELSE IF step.ok
                  THEN [viewer EXCEPT !.crop.right = c.right + step.val,
                                      !.redraw = TRUE]
                  ELSE Panicked
    /\ UNCHANGED <<image, last>>

\* WindowEvent::Key(Key::L | Key::Right, _, _, modifiers)
KeyRight(key, action, shift, control) ==
    /\ action # "Release" /\ key \in {"L", "Right"}
    /\ LET delta == calculate_delta(control)
           c == viewer.crop
           step == crop_step(image.width, c.left, c.right, delta)
       IN  viewer' =
             IF shift
             THEN [viewer EXCEPT !.crop.right = c.right - Min(delta, c.right),
                                 !.redraw = TRUE]
             ELSE IF step.ok
                  THEN [viewer EXCEPT !.crop.left = c.left + step.val,
                                      !.redraw = TRUE]
                  ELSE Panicked
    /\ UNCHANGED <<image, last>>

\* WindowEvent::Key(Key::R, _, Action::Press, _)
KeyR(key, action) ==
    /\ key = "R" /\ action = "Press"
    /\ viewer' = [viewer EXCEPT !.crop = DefaultCrop, !.mouse_click = <<>>,
                                !.redraw = TRUE]
    /\ UNCHANGED <<image, last>>

\* WindowEvent::CursorPos(x, y)
CursorPos(x, y) ==
    /\ viewer' = [viewer EXCEPT !.mouse_position = <<x, y>>]
    /\ UNCHANGED <<image, last>>

\* WindowEvent::MouseButton(MouseButton::Button1, Action::Press, _), with
\* (width, height) the window size get_size() returns.
MouseButton1Press(width, height) ==
    LET c == viewer.crop
        mouse_position == viewer.mouse_position
        w == sub_u32(image.width - c.left - c.right, viewer.overflow_checks)
        h == sub_u32(image.height - c.top - c.bottom, viewer.overflow_checks)
        im_width == w.val
        im_height == h.val
        disp_width == Min(im_width, width)
        disp_height == Min(im_height, height)
        mc == viewer.mouse_click[1]
        x1 == mc[1] - div_i32(width, 2) + div_i32(disp_width, 2)
        y1 == mc[2] - div_i32(height, 2) + div_i32(disp_height, 2)
        x2 == mouse_position[1] - div_i32(width, 2) + div_i32(disp_width, 2)
        y2 == mouse_position[2] - div_i32(height, 2) + div_i32(disp_height, 2)
        sx1 == IF width < im_width THEN div_i32(x1 * im_width, width) ELSE x1
        sx2 == IF width < im_width THEN div_i32(x2 * im_width, width) ELSE x2
        sy1 == IF height < im_height THEN div_i32(y1 * im_height, height) ELSE y1
        sy2 == IF height < im_height THEN div_i32(y2 * im_height, height) ELSE y2
    IN  /\ viewer' =
             IF ~w.ok \/ ~h.ok THEN Panicked
             ELSE IF viewer.mouse_click = <<>>
             THEN [viewer EXCEPT !.mouse_click = <<mouse_position>>]
             ELSE IF mc = mouse_position THEN viewer
             ELSE IF \/ x1 < 0 \/ x2 < 0 \/ y1 < 0 \/ y2 < 0
                     \/ x1 > disp_width \/ x2 > disp_width
                     \/ y1 > disp_height \/ y2 > disp_height
             THEN [viewer EXCEPT !.mouse_click = <<>>]
             ELSE [viewer EXCEPT
                     !.crop = [left |-> c.left + Min(sx1, sx2),
                               right |-> c.right + (im_width - Max(sx1, sx2)),
                               top |-> c.top + Min(sy1, sy2),
                               bottom |-> c.bottom + (im_height - Max(sy1, sy2))],
                     !.mouse_click = <<>>,
                     !.redraw = TRUE]
        /\ UNCHANGED <<image, last>>

\* _ => {}: a key no arm names, R held down, any other event.
Ignored(event, key, action) ==
    /\ \/ event = "Other"
       \/ /\ event = "Key" /\ action # "Release"
          /\ key \notin {"Escape", "Q", "K", "Up", "J", "Down", "H", "Left",
                         "L", "Right"}
          /\ ~(key = "R" /\ action = "Press")
    /\ UNCHANGED <<image, last, viewer>>

\* if redraw { ... redraw = false; ... } at the end of a pass of the loop.
Render ==
    /\ Running
    /\ viewer.redraw
    /\ viewer' = [viewer EXCEPT !.redraw = FALSE]
    /\ UNCHANGED <<image, last>>

\* Events the window delivers.
Keys == {"K", "Up", "J", "Down", "H", "Left", "L", "Right", "R", "Q", "Escape", "A"}

KeyActions == {"Press", "Repeat", "Release"}

MousePositions == (0..MaxMouse) \X (0..MaxMouse)

WindowSizes == (1..MaxWindow) \X (1..MaxWindow)

RgbaImages == {[width |-> w, height |-> h] : w \in 1..MaxImage, h \in 1..MaxImage}

\* The crop amounts the model follows.
AmountsBounded ==
    /\ viewer.crop.left <= MaxAmount /\ viewer.crop.right <= MaxAmount
    /\ viewer.crop.top <= MaxAmount /\ viewer.crop.bottom <= MaxAmount

\* The match of main_loop on a key event.
HandleKey(key, action, shift, control) ==
    \/ KeyRelease(key, action, shift, control)
    \/ Quit("Key", key, action)
    \/ KeyUp(key, action, shift, control)
    \/ KeyDown(key, action, shift, control)
    \/ KeyLeft(key, action, shift, control)
    \/ KeyRight(key, action, shift, control)
    \/ KeyR(key, action)
    \/ Ignored("Key", key, action)

PressOrRepeat == {"Press", "Repeat"}

EventKeyRelease ==
    /\ Running
    /\ \E key \in Keys, shift \in BOOLEAN, control \in BOOLEAN :
          KeyRelease(key, "Release", shift, control)

EventQuit ==
    /\ Running
    /\ \/ Quit("Close", "", "")
       \/ \E key \in Keys, action \in PressOrRepeat : Quit("Key", key, action)

EventWindow ==
    /\ Running
    /\ \E event \in {"Pos", "Size", "Focus"} : WindowChanged(event)

EventKeyUp ==
    /\ Running
    /\ \E key \in Keys, action \in PressOrRepeat, shift \in BOOLEAN, control \in BOOLEAN :
          KeyUp(key, action, shift, control)
    /\ AmountsBounded'

EventKeyDown ==
    /\ Running
    /\ \E key \in Keys, action \in PressOrRepeat, shift \in BOOLEAN, control \in BOOLEAN :
          KeyDown(key, action, shift, control)
    /\ AmountsBounded'

EventKeyLeft ==
    /\ Running
    /\ \E key \in Keys, action \in PressOrRepeat, shift \in BOOLEAN, control \in BOOLEAN :
          KeyLeft(key, action, shift, control)
    /\ AmountsBounded'

EventKeyRight ==
    /\ Running
    /\ \E key \in Keys, action \in PressOrRepeat, shift \in BOOLEAN, control \in BOOLEAN :
          KeyRight(key, action, shift, control)
    /\ AmountsBounded'

EventKeyR ==
    /\ Running
    /\ \E key \in Keys, action \in PressOrRepeat : KeyR(key, action)

EventCursorPos ==
    /\ Running
    /\ \E p \in MousePositions : CursorPos(p[1], p[2])

EventMouseButton ==
    /\ Running
    /\ \E size \in WindowSizes : MouseButton1Press(size[1], size[2])
    /\ AmountsBounded'

EventIgnored ==
    /\ Running
    /\ \/ Ignored("Other", "", "")
       \/ \E key \in Keys, action \in PressOrRepeat : Ignored("Key", key, action)

\* main_loop is entered with an image of at least 1 x 1.
InitViewer ==
    /\ image \in RgbaImages
    /\ last = [op |-> "none"]
    /\ viewer \in {[status |-> "running", overflow_checks |-> b, redraw |-> TRUE,
                    crop |-> DefaultCrop, mouse_position |-> <<0, 0>>,
                    mouse_click |-> <<>>, returned |-> <<>>] : b \in BOOLEAN}

NextViewer ==
    \/ EventKeyRelease \/ EventQuit \/ EventWindow
    \/ EventKeyUp \/ EventKeyDown \/ EventKeyLeft \/ EventKeyRight \/ EventKeyR
    \/ EventCursorPos \/ EventMouseButton \/ EventIgnored \/ Render

SpecViewer == InitViewer /\ [][NextViewer]_vars

(***************************************************************************)
(* Two crops in a row, on buffers up to MaxWide rows and columns so that   *)
(* both calls can take something off the same side.                        *)
(***************************************************************************)
MaxWide == 3

WideDims == 0..MaxWide

\* Bytes that differ from their neighbours along a row and down a column.
PatternData(P, height, width) ==
    [i \in 1..(height * width * NUM_CHANNELS(P)) |-> GridByte[(i % 5) + 1]]

\* The amounts two calls take off one axis: first near, first far, second
\* near, second far; together at most the dimension.
AxisAmounts(dim) ==
    {a \in CropAmounts \X CropAmounts \X CropAmounts \X CropAmounts :
        a[1] + a[2] + a[3] + a[4] <= dim}

\* self.crop(l1, r1, t1, b1).crop(l2, r2, t2, b2)
crop_twice(self, first, second) ==
    LET a == crop(self, first.left, first.right, first.top, first.bottom)
    IN  IF a.ok
        THEN crop(a.img, second.left, second.right, second.top, second.bottom)
        ELSE a

CropTwice(first, second) ==
    LET r == crop_twice(image, first, second)
    IN  /\ last' = [op |-> "crop_twice", src |-> image, first |-> first,
                    second |-> second, ok |-> r.ok, out |-> r.img]
        /\ UNCHANGED <<image, viewer>>

CallNewWide ==
    /\ Fresh
    /\ \E P \in Formats, h \in WideDims, w \in WideDims :
          New(P, h, w, PatternData(P, h, w))

CallCropTwice ==
    /\ Idle
    /\ \E x \in AxisAmounts(image.width), y \in AxisAmounts(image.height) :
          CropTwice([left |-> x[1], right |-> x[2], top |-> y[1], bottom |-> y[2]],
                    [left |-> x[3], right |-> x[4], top |-> y[3], bottom |-> y[4]])

NextCropTwice == CallNewWide \/ CallFromPixels \/ Keep \/ CallCropTwice

SpecCropTwice == Init /\ [][NextCropTwice]_vars

(***************************************************************************)
(* png.rs: the codec-side flips.                                           *)
(***************************************************************************)
Reverse(s) == [i \in 1..Len(s) |-> s[Len(s) + 1 - i]]

\* Every row slice self.data[x * row_size .. x * row_size + row_size] of the
\* flip loops is in range, and row_size itself did not panic.
png_rows_ok(self) ==
    /\ png_row_size(self).ok
    /\ \A x \in 0..(self.height - 1) :
          SliceOk(self.data, x * png_row_size(self).val,
                  x * png_row_size(self).val + png_row_size(self).val)

RECURSIVE png_flip_vertical_rows(_, _, _)
\* The loop of flip_vertical from row x down to row 0.
png_flip_vertical_rows(self, rsize, x) ==
    IF x < 0 THEN <<>>
    ELSE Slice(self.data, x * rsize, x * rsize + rsize)
           \o png_flip_vertical_rows(self, rsize, x - 1)

RECURSIVE png_flip_horizontal_rows(_, _, _)
\* The loop of flip_horizontal from row x to the last row: each row's bytes
\* reversed.
png_flip_horizontal_rows(self, rsize, x) ==
    IF x >= self.height THEN <<>>
    ELSE Reverse(Slice(self.data, x * rsize, x * rsize + rsize))
           \o png_flip_horizontal_rows(self, rsize, x + 1)

\* The codec-side Image::flip_vertical.
png_flip_vertical(self) ==
    IF png_rows_ok(self)
    THEN Ok(png_image(self.height, self.width, self.color_type,
                      png_flip_vertical_rows(self, png_row_size(self).val,
                                             self.height - 1)))
    ELSE Panic(self)

\* The codec-side Image::flip_horizontal.
png_flip_horizontal(self) ==
    IF png_rows_ok(self)
    THEN Ok(png_image(self.height, self.width, self.color_type,
                      png_flip_horizontal_rows(self, png_row_size(self).val, 0)))
    ELSE Panic(self)

Flips == {"flip_vertical", "flip_horizontal"}

png_flip(self, which) ==
    IF which = "flip_vertical" THEN png_flip_vertical(self)
    ELSE png_flip_horizontal(self)

PngFlipVertical ==
    LET r == png_flip_vertical(image)
    IN  /\ last' = [op |-> "flip_vertical", src |-> image,
                    ok |-> r.ok, out |-> r.img]
        /\ UNCHANGED <<image, viewer>>

PngFlipHorizontal ==
    LET r == png_flip_horizontal(image)
    IN  /\ last' = [op |-> "flip_horizontal", src |-> image,
                    ok |-> r.ok, out |-> r.img]
        /\ UNCHANGED <<image, viewer>>

\* image.flip().flip() with the same flip both times.
PngFlipTwice(which) ==
    LET a == png_flip(image, which)
        r == IF a.ok THEN png_flip(a.img, which) ELSE a
    IN  /\ last' = [op |-> "flip_twice", which |-> which, src |-> image,
                    ok |-> r.ok, out |-> r.img]
        /\ UNCHANGED <<image, viewer>>

CallPngFlipVertical ==
    /\ Idle
    /\ image # EmptyImage
    /\ PngFlipVertical

CallPngFlipHorizontal ==
    /\ Idle
    /\ image # EmptyImage
    /\ PngFlipHorizontal

CallPngFlipTwice ==
    /\ Idle
    /\ image # EmptyImage
    /\ \E which \in Flips : PngFlipTwice(which)

NextFlip ==
    \/ CallGetImage
    \/ KeepImage
    \/ CallPngFlipVertical
    \/ CallPngFlipHorizontal
    \/ CallPngFlipTwice

SpecFlip == Init /\ [][NextFlip]_vars

(***************************************************************************)
(* Properties.                                                             *)
(***************************************************************************)
BufferOps == {"new", "from_pixels", "convert", "crop"}

\* The dimension invariant of a buffer.
WellFormed(img) == Len(img.data) = img.height * img.width * NUM_CHANNELS(img.fmt)

\* The stored bytes of pixel (x, y), read at the offset get_pixel uses.
PixelInStorage(img, x, y) ==
    SliceOk(img.data, get_pixel_idx(img, x, y),
            get_pixel_idx(img, x, y) + NUM_CHANNELS(img.fmt))

PixelBytes(img, x, y) ==
    Slice(img.data, get_pixel_idx(img, x, y),
          get_pixel_idx(img, x, y) + NUM_CHANNELS(img.fmt))

Zeros(n) == [i \in 1..n |-> 0]

\* C1: every buffer a core operation returns stores exactly
\* height * width * NUM_CHANNELS bytes, from_pixels on a ragged grid included.
C1_DimensionInvariant ==
    (last.op \in BufferOps /\ last.ok) => WellFormed(last.out)

\* C2: new(height, width, bytes) stores height * width * channels bytes: the
\* supplied bytes followed by zeros when short, their prefix when long.
C2_NewPadsOrTruncates ==
    last.op = "new" =>
        LET size == last.height * last.width * NUM_CHANNELS(last.fmt)
            n == Len(last.supplied)
        IN  /\ last.ok
            /\ last.out.fmt = last.fmt
            /\ last.out.height = last.height
            /\ last.out.width = last.width
            /\ n <= size => last.out.data = last.supplied \o Zeros(size - n)
            /\ n > size => last.out.data = SubSeq(last.supplied, 1, size)

\* Scenario D: 4 bytes supplied for a 1 x 2 RGB buffer.
C2_Witness ==
    /\ last.op = "new"
    /\ last.fmt = "RGB" /\ last.height = 1 /\ last.width = 2
    /\ last.supplied = ScenarioD
    /\ last.out.data = <<7, 255, 7, 255, 0, 0>>

\* C3: from_slice(into_vec(v), 0) returns v for every pixel value v of every
\* format, and into_vec yields NUM_CHANNELS bytes.
C3_PixelRoundTrip ==
    last.op = "round_trip" =>
        /\ Len(last.vec) = NUM_CHANNELS(last.fmt)
        /\ last.ok
        /\ last.out = last.px

\* C4: for left + right < width and top + bottom < height, crop returns a
\* buffer of width - left - right by height - top - bottom, and
\* crop(0, 0, 0, 0) returns the original height, width and bytes.
C4_CropDimensionLaw ==
    (/\ last.op = "crop" /\ last.ok
     /\ last.left + last.right < last.src.width
     /\ last.top + last.bottom < last.src.height) =>
        /\ last.out.width = last.src.width - last.left - last.right
        /\ last.out.height = last.src.height - last.top - last.bottom
        /\ (last.left = 0 /\ last.right = 0 /\ last.top = 0 /\ last.bottom = 0)
              => last.out = last.src

\* C5: for left + right < width and top + bottom < height, pixel (x, y) of
\* the buffer crop returns has the bytes of pixel (x + left, y + top) of the
\* original.
C5_CropSubRectangle ==
    (/\ last.op = "crop" /\ last.ok
     /\ last.left + last.right < last.src.width
     /\ last.top + last.bottom < last.src.height) =>
        \A x \in 0..(last.src.width - last.left - last.right - 1),
           y \in 0..(last.src.height - last.top - last.bottom - 1) :
            /\ PixelInStorage(last.out, x, y)
            /\ PixelInStorage(last.src, x + last.left, y + last.top)
            /\ PixelBytes(last.out, x, y)
                 = PixelBytes(last.src, x + last.left, y + last.top)

\* Scenario B: crop(1, 0, 0, 0) of the 2 x 2 RGBA buffer keeps the right column.
C5_Witness ==
    /\ last.op = "crop" /\ last.ok
    /\ last.src = make_image("RGBA", 2, 2, ScenarioA)
    /\ last.left = 1 /\ last.right = 0 /\ last.top = 0 /\ last.bottom = 0
    /\ last.out = make_image("RGBA", 2, 1, <<0, 255, 0, 255, 255, 255, 255, 255>>)

\* What one single-side crop leaves of a dimension: an amount that reaches
\* the dimension is not applied.
ClampSide(dim, amt) == IF dim <= amt THEN dim ELSE dim - amt

ExactLuminance(r, g, b) == (30 * r + 59 * g + 11 * b) \div 100

\* C8: converting an RGB or RGBA pixel to Gray or GrayA yields
\* gray = floor(0.3 R + 0.59 G + 0.11 B) for every R, G, B.
C8_LuminanceIsFloor ==
    (/\ last.op = "convert_pixel"
     /\ last.fmt \in {"RGB", "RGBA"}
     /\ last.to \in {"Gray", "GrayA"}) =>
        last.out.gray = ExactLuminance(last.px.red, last.px.green, last.px.blue)

\* C9: convert::<F>() on a well-formed buffer of format F returns a buffer
\* with the same height, width and bytes.
C9_IdentityConversion ==
    (last.op = "convert" /\ last.to = last.src.fmt /\ WellFormed(last.src)) =>
        /\ last.ok
        /\ last.out = last.src

\* C10: converting a Gray or RGB buffer to GrayA or RGBA yields alpha = 255
\* in every pixel of the result.
C10_AlphaDefaultsOpaque ==
    (/\ last.op = "convert" /\ last.ok
     /\ last.src.fmt \in {"Gray", "RGB"}
     /\ last.to \in {"GrayA", "RGBA"}) =>
        /\ last.out.fmt = last.to
        /\ WellFormed(last.out)
        /\ \A k \in 1..(last.out.height * last.out.width) :
              last.out.data[k * NUM_CHANNELS(last.to)] = 255

\* A 2 x 2 RGB buffer with no byte equal to 255 converted to RGBA.
C10_Witness ==
    /\ last.op = "convert" /\ last.ok
    /\ last.src.fmt = "RGB" /\ last.to = "RGBA"
    /\ last.src.height = 2 /\ last.src.width = 2
    /\ \A i \in 1..Len(last.src.data) : last.src.data[i] # 255
    /\ Len(last.out.data) = 16

\* C11: converting a well-formed GrayA buffer to RGBA yields, at every pixel
\* position, red = green = blue = the stored gray byte and alpha = the byte
\* stored right after it; converting a Gray buffer to RGB or RGBA yields
\* red = green = blue = gray.
C11_GrayToColour ==
    (/\ last.op = "convert"
     /\ WellFormed(last.src)
     /\ \/ last.src.fmt = "GrayA" /\ last.to = "RGBA"
        \/ last.src.fmt = "Gray" /\ last.to \in {"RGB", "RGBA"}) =>
        /\ last.ok
        /\ last.out.height = last.src.height
        /\ last.out.width = last.src.width
        /\ WellFormed(last.out)
        /\ \A y \in 0..(last.src.height - 1), x \in 0..(last.src.width - 1) :
              LET s == PixelBytes(last.src, x, y)
                  o == PixelBytes(last.out, x, y)
              IN  /\ o[1] = s[1] /\ o[2] = s[1] /\ o[3] = s[1]
                  /\ (last.src.fmt = "GrayA") => o[4] = s[2]

\* C13: on a buffer that satisfies the dimension invariant, crop with any
\* amounts and convert to any format complete without a panic.
C13_CoreOperationsTotal ==
    (last.op \in {"crop", "convert"} /\ WellFormed(last.src)) => last.ok

\* Every row of the grid is as long as the first.
Rectangular(pixels) == \A y \in 1..Len(pixels) : Len(pixels[y]) = Len(pixels[1])

\* C12: from_pixels(b.to_pixels()) has the height, width and bytes of b for
\* every buffer b; from_pixels(g).to_pixels() is g for every rectangular
\* grid g; from_pixels on a grid with no rows or with zero-width rows
\* returns a 0 x 0 buffer with no bytes.
C12_PixelsLosslessInverses ==
    /\ last.op = "to_pixels_round_trip" =>
          /\ last.ok
          /\ last.out = last.src
    /\ (last.op = "from_pixels_round_trip" /\ Rectangular(last.pixels)) =>
          /\ last.ok
          /\ last.out = last.pixels
    /\ (/\ last.op = "from_pixels"
        /\ \A y \in 1..Len(last.pixels) : Len(last.pixels[y]) = 0) =>
          /\ last.out.height = 0 /\ last.out.width = 0
          /\ last.out.data = <<>>

\* C18: get_pixel(x, y) with x < width and y < height on a buffer that
\* satisfies the dimension invariant indexes exactly the NUM_CHANNELS
\* offsets from y * row_size + x * NUM_CHANNELS on, all inside the buffer.
C18_GetPixelReadsOwnBytes ==
    (/\ last.op = "get_pixel"
     /\ WellFormed(last.src)
     /\ last.x < last.src.width /\ last.y < last.src.height) =>
        LET idx == last.y * row_size(last.src) + last.x * NUM_CHANNELS(last.src.fmt)
        IN  /\ last.reads = idx..(idx + NUM_CHANNELS(last.src.fmt) - 1)
            /\ \A i \in last.reads : i < Len(last.src.data)
            /\ last.ok

\* The channel count of a format, as the claim gives it.
ChannelCount(color_type) ==
    CASE color_type \in {"Gray"} -> 1
      [] color_type \in {"GrayAlpha", "GrayA"} -> 2
      [] color_type \in {"RGB"} -> 3
      [] color_type \in {"RGBAlpha", "RGBA"} -> 4

\* C14: the channel count is 1 for Gray, 2 for GrayAlpha, 3 for RGB and 4 for
\* RGBA, as Pixel::NUM_CHANNELS and as ColorType::num_channels, so that the
\* codec-side row_size = width * channel count is the number of bytes of a
\* scanline and get_image keeps every byte of every scanline.
C14_ChannelCounts ==
    /\ \A P \in Formats : NUM_CHANNELS(P) = ChannelCount(P)
    /\ (last.op = "get_image" /\ last.file.color_type # "Palette") =>
          /\ last.ok
          /\ num_channels(last.file.color_type).val = ChannelCount(last.file.color_type)
          /\ \A y \in 1..last.file.height :
                png_row_size(last.out).val = Len(last.file.rows[y])
          /\ Len(last.out.data) =
                last.file.height * last.file.width * ChannelCount(last.file.color_type)

\* C16: a decoded file whose colour type is palette is rejected with a
\* recoverable error before an image is built; get_image does not panic.
C16_PaletteRejected ==
    (last.op = "get_image" /\ last.file.color_type = "Palette") =>
        last.outcome = "error"

\* C15: while the viewer runs, left + right < image width and
\* top + bottom < image height, and no subtraction of the amounts from the
\* dimensions underflows, in the loop or in crop_image.
C15_CropStaysInsideImage ==
    /\ viewer.status # "panicked"
    /\ viewer.status = "running" =>
          /\ viewer.crop.left + viewer.crop.right < image.width
          /\ viewer.crop.top + viewer.crop.bottom < image.height

\* The rectangle of the image that is left when the amounts are cropped.
CroppedBy(img, amounts) ==
    [x |-> amounts.left, y |-> amounts.top,
     width |-> img.width - amounts.left - amounts.right,
     height |-> img.height - amounts.top - amounts.bottom]

\* C17: in every state of the running viewer, a press of R sets the four
\* crop amounts to zero and drops a pending first click, and Q, Escape or
\* closing the window ends the loop returning the image cropped by exactly
\* the amounts accumulated so far.
C17_ResetAndQuit ==
    [][/\ \A shift \in BOOLEAN, control \in BOOLEAN :
             (Running /\ HandleKey("R", "Press", shift, control)) =>
                /\ viewer'.status = "running"
                /\ viewer'.crop = DefaultCrop
                /\ viewer'.mouse_click = <<>>
       /\ (/\ Running
           /\ \/ Quit("Close", "", "")
              \/ \E key \in {"Q", "Escape"}, action \in PressOrRepeat,
                    shift \in BOOLEAN, control \in BOOLEAN :
                    HandleKey(key, action, shift, control)) =>
             /\ viewer'.status = "returned"
             /\ viewer'.returned = <<CroppedBy(image, viewer.crop)>>
             /\ 0 <= CroppedBy(image, viewer.crop).width
             /\ 0 <= CroppedBy(image, viewer.crop).height]_vars

\* The side a direction key acts on, and the dimension of its axis.
KeySide(key, shift) ==
    CASE key \in {"K", "Up"} -> IF shift THEN "top" ELSE "bottom"
      [] key \in {"J", "Down"} -> IF shift THEN "bottom" ELSE "top"
      [] key \in {"H", "Left"} -> IF shift THEN "left" ELSE "right"
      [] key \in {"L", "Right"} -> IF shift THEN "right" ELSE "left"

KeyRoom(key) ==
    IF key \in {"K", "Up", "J", "Down"}
    THEN image.height - viewer.crop.top - viewer.crop.bottom - 1
    ELSE image.width - viewer.crop.left - viewer.crop.right - 1

\* C20: a direction key event changes one crop amount and leaves the other
\* three and the image as they were: with Shift the key's side decreases by
\* min(delta, amount); without Shift the opposite side increases by
\* min(delta, dimension - both amounts of the axis - 1); delta is 10 with
\* Control and 1 without.
C20_DirectionKeyEffect ==
    [][\A key \in {"K", "Up", "J", "Down", "H", "Left", "L", "Right"},
          action \in PressOrRepeat, shift \in BOOLEAN, control \in BOOLEAN :
          (Running /\ HandleKey(key, action, shift, control)) =>
             LET delta == IF control THEN 10 ELSE 1
                 side == KeySide(key, shift)
                 amount == viewer.crop[side]
             IN  /\ image' = image
                 /\ viewer'.status = "running"
                 /\ \A other \in {"left", "right", "top", "bottom"} \ {side} :
                       viewer'.crop[other] = viewer.crop[other]
                 /\ viewer'.crop[side] >= 0
                 /\ viewer'.crop[side] =
                       IF shift THEN amount - Min(delta, amount)
                       ELSE amount + Min(delta, KeyRoom(key))]_vars

Sides == {"top", "bottom", "left", "right"}

\* The 24 orders in which the four sides can be cropped.
Orders == {o \in [1..4 -> Sides] : \A i, j \in 1..4 : o[i] = o[j] => i = j}

crop_side(self, side, left, right, top, bottom) ==
    CASE side = "top" -> crop_top(self, top)
      [] side = "bottom" -> crop_bottom(self, bottom)
      [] side = "left" -> crop_left(self, left)
      [] side = "right" -> crop_right(self, right)

RECURSIVE crop_sides_from(_, _, _, _, _, _, _)
crop_sides_from(self, order, k, left, right, top, bottom) ==
    IF k > Len(order) THEN Ok(self)
    ELSE LET a == crop_side(self, order[k], left, right, top, bottom)
         IN  IF a.ok
             THEN crop_sides_from(a.img, order, k + 1, left, right, top, bottom)
             ELSE a

\* crop with its four single-side crops applied in the given order.
crop_in_order(self, order, left, right, top, bottom) ==
    LET d == crop_sides_from(self, order, 1, left, right, top, bottom)
    IN  IF d.ok THEN Ok(shrink_data(d.img)) ELSE Panic(self)

C21_CropsComposeAdditively ==
    (/\ last.op = "crop_twice"
     /\ last.first.left + last.second.left + last.first.right + last.second.right
          < last.src.width
     /\ last.first.top + last.second.top + last.first.bottom + last.second.bottom
          < last.src.height) =>
        crop(last.src, last.first.left + last.second.left,
             last.first.right + last.second.right,
             last.first.top + last.second.top,
             last.first.bottom + last.second.bottom)
          = [ok |-> last.ok, img |-> last.out]

\* C22: flip_horizontal returns an image of the same dimensions and format
\* whose pixel (x, y) has the channel values, in the same order, of the
\* original's pixel (width-1-x, y); flip_vertical returns one whose pixel
\* (x, y) is the original's pixel (x, height-1-y); either flip applied twice
\* returns the original bytes.
C22_FlipsMirrorPixels ==
    /\ last.op \in Flips =>
          /\ last.ok
          /\ last.out.height = last.src.height
          /\ last.out.width = last.src.width
          /\ last.out.color_type = last.src.color_type
          /\ \A x \in 0..(last.src.width - 1), y \in 0..(last.src.height - 1) :
                /\ png_get_pixel(last.out, x, y).ok
                /\ png_get_pixel(last.out, x, y)
                     = IF last.op = "flip_horizontal"
                       THEN png_get_pixel(last.src, last.src.width - 1 - x, y)
                       ELSE png_get_pixel(last.src, x, last.src.height - 1 - y)
    /\ last.op = "flip_twice" => (last.ok /\ last.out = last.src)

====
